---- MODULE Spec2Model ----
(***************************************************************************)
(* Model of the decorator-driven Express adapter of src/src/express.ts:    *)
(* the generated route handler, the middleware normaliser (both variants   *)
(* present in the sources), attachMiddleware, extractParameters and the    *)
(* controller registration.  Each part has its own specification over the  *)
(* variables it uses; the other variables stay at their initial values.    *)
(***************************************************************************)
EXTENDS Integers, Sequences, FiniteSets, TLC

VARIABLES
    status,      \* routeHandler: the declared response status of the route
    res,         \* routeHandler: the response object seen by the handler
    call,        \* routeHandler: position of the current handler invocation
    nextCalls,   \* routeHandler: arguments the handler passed to next
    reqNo,       \* routeHandler: number of the request being served
    mw,          \* middlewareHandler: the middleware reference and its behaviour
    mwCall,      \* middlewareHandler: position of the current invocation
    meta,        \* attachMiddleware: the controller metadata record
    lastAttach,  \* attachMiddleware: the last call and the metadata before it
    params,      \* extractParameters: the declared parameter list
    req,         \* extractParameters: the request object
    args,        \* extractParameters: the last extracted argument array
    ctrl,        \* registerController: per controller, its position and router
    app,         \* registerController: the mounts on the application
    allPromise,  \* attachControllersInstances: state of the returned promise
    regLog,      \* registerController: the registration calls, in order
    dispatch     \* request dispatch through a mounted router

routeVars  == <<status, res, call, nextCalls>>
mwVars     == <<mw, mwCall>>
attachVars == <<meta, lastAttach>>
paramVars  == <<params, req, args>>
regVars    == <<ctrl, app, allPromise, regLog, dispatch>>
\* what the actions of one part leave alone
notRoute  == <<mwVars, attachVars, paramVars, regVars>>
notMw     == <<routeVars, attachVars, paramVars, regVars>>
notAttach == <<routeVars, mwVars, paramVars, regVars, reqNo>>
notParams == <<routeVars, mwVars, attachVars, regVars, reqNo>>
notReg    == <<routeVars, mwVars, attachVars, paramVars>>
vars == <<status, res, call, nextCalls, reqNo, mw, mwCall, meta, lastAttach,
          params, req, args, ctrl, app, allPromise, regLog, dispatch>>

Undefined == "undefined"
None == "none"

(***************************************************************************)
(* Bounds of the model.                                                    *)
(***************************************************************************)
MaxRequests == 2

(***************************************************************************)
(* Values.  Payloads are strings; "null" stands for any value that is not  *)
(* undefined but falsy.                                                    *)
(***************************************************************************)
Values == {Undefined, "null", "V1", "V2"}
Errors == {"E1", "E2"}
StatusValues == {Undefined, "201"}

(***************************************************************************)
(* routeHandler (express.ts 77-105)                                        *)
(***************************************************************************)
FreshRes == [headersSent |-> FALSE, sent |-> <<>>, statuses |-> <<>>]

\* res.status(code)
resStatus(r, code) == [r EXCEPT !.statuses = Append(@, code)]

\* res.send(body): writes the response, after which headers are sent
resSend(r, body) == [r EXCEPT !.sent = Append(@, body), !.headersSent = TRUE]

\* the body shared by both paths: if (status) res.status(status); res.send(r)
sendResult(r, st, v) ==
    resSend(IF st # Undefined THEN resStatus(r, st) ELSE r, v)

\* mutant: the resolved-promise path without the headersSent test
thenCallback_noHeadersCheck(r, st, v) ==
    IF v # Undefined THEN sendResult(r, st, v) ELSE r

\* mutant: the resolved-promise path sends only when a status is declared
thenCallback_statusOnly(r, st, v) ==
    IF ~r.headersSent /\ v # Undefined /\ st # Undefined
    THEN sendResult(r, st, v) ELSE r

\* the .then callback, lines 85-92
thenCallback(r, st, v) ==
    IF ~r.headersSent /\ v # Undefined THEN sendResult(r, st, v) ELSE r

\* the immediate-value path, lines 94-101
immediateResult(r, st, v) ==
    IF v # Undefined
    THEN (IF ~r.headersSent THEN sendResult(r, st, v) ELSE r)
    ELSE r

\* mutant: the rejection is dropped (no .catch)
catchCallback_dropped(calls, e) == calls

\* .catch(next), line 93
catchCallback(calls, e) == Append(calls, e)

IdleCall == [pc |-> "idle", kind |-> None, value |-> None, thrown |-> None,
             ctrlSent |-> FALSE]

RouteInit ==
    /\ status \in StatusValues
    /\ res = FreshRes
    /\ call = IdleCall
    /\ nextCalls = <<>>
    /\ reqNo = 1

\* what the controller method does to the response before it returns
methodEffect(r, sends) == IF sends THEN [r EXCEPT !.headersSent = TRUE] ELSE r

\* The handler is invoked and the controller method throws synchronously:
\* line 81 is not inside a try, so the exception leaves the handler.
routeHandlerThrows ==
    /\ call.pc = "idle"
    /\ \E e \in Errors, sends \in BOOLEAN :
         /\ res' = methodEffect(res, sends)
         /\ call' = [pc |-> "threw", kind |-> "throw", value |-> e,
                     thrown |-> e, ctrlSent |-> sends]
    /\ UNCHANGED <<status, nextCalls, reqNo, notRoute>>

\* The handler is invoked and the controller method returns a value.
routeHandlerValue ==
    /\ call.pc = "idle"
    /\ \E v \in Values, sends \in BOOLEAN :
         /\ res' = immediateResult(methodEffect(res, sends), status, v)
         /\ call' = [pc |-> "done", kind |-> "value", value |-> v,
                     thrown |-> None, ctrlSent |-> sends]
    /\ UNCHANGED <<status, nextCalls, reqNo, notRoute>>

\* The handler is invoked and the controller method returns a promise: the
\* callbacks are attached and the handler returns.
routeHandlerPromise ==
    /\ call.pc = "idle"
    /\ \E sends \in BOOLEAN :
         /\ res' = methodEffect(res, sends)
         /\ call' = [pc |-> "pending", kind |-> "promise", value |-> None,
                     thrown |-> None, ctrlSent |-> sends]
    /\ UNCHANGED <<status, nextCalls, reqNo, notRoute>>

\* While its promise is pending the controller method writes the response.
methodSendsWhilePending ==
    /\ call.pc = "pending"
    /\ ~res.headersSent
    /\ res' = [res EXCEPT !.headersSent = TRUE]
    /\ call' = [call EXCEPT !.ctrlSent = TRUE]
    /\ UNCHANGED <<status, nextCalls, reqNo, notRoute>>

\* The promise resolves: the .then callback runs.
promiseResolves ==
    /\ call.pc = "pending"
    /\ \E v \in Values :
         /\ res' = thenCallback(res, status, v)
         /\ call' = [call EXCEPT !.pc = "done", !.kind = "resolved", !.value = v]
    /\ UNCHANGED <<status, nextCalls, reqNo, notRoute>>

\* The promise rejects: .then is skipped and .catch(next) runs.
promiseRejects ==
    /\ call.pc = "pending"
    /\ \E e \in Errors :
         /\ nextCalls' = catchCallback(nextCalls, e)
         /\ call' = [call EXCEPT !.pc = "done", !.kind = "rejected", !.value = e]
    /\ UNCHANGED <<status, res, reqNo, notRoute>>

\* The next request arrives at the same handler with a fresh response.
newRequest ==
    /\ call.pc \in {"done", "threw"}
    /\ reqNo < MaxRequests
    /\ reqNo' = reqNo + 1
    /\ res' = FreshRes
    /\ call' = IdleCall
    /\ nextCalls' = <<>>
    /\ UNCHANGED <<status, notRoute>>

(***************************************************************************)
(* middlewareHandler / invokeMiddleware.  The sources hold two variants:   *)
(* the earlier one (express.ts 188-213) takes an object with a use method, *)
(* the later one (express.ts 233-271) takes a function or a class.         *)
(***************************************************************************)
Behaviours == {"next", "respond", "throw", "promise"}

EarlierRefs == [variant : {"earlier"}, ref : {Undefined, "object"},
                behaviour : Behaviours, err : Errors, ctorThrows : {FALSE}]
LaterRefs == [variant : {"later"}, ref : {Undefined, "function", "class"},
              behaviour : Behaviours, err : Errors, ctorThrows : BOOLEAN]

IdleMwCall == [pc |-> "idle", instance |-> None, next |-> <<>>,
               failure |-> None, thrown |-> None, unhandled |-> {}]

MiddlewareInit ==
    /\ mw \in EarlierRefs \cup LaterRefs
    /\ (mw.ctorThrows => mw.ref = "class")
    /\ mwCall = IdleMwCall
    /\ reqNo = 1

\* next(arg) called by the adapter, or by the middleware itself
byAdapter(c, arg) == [c EXCEPT !.next = Append(@, [by |-> "adapter", arg |-> arg])]
byMiddleware(c, arg) == [c EXCEPT !.next = Append(@, [by |-> "middleware", arg |-> arg])]

\* getMiddlewareInstance, lines 267-271: a class is instantiated (its
\* constructor may throw, which rejects the returned promise), a plain
\* function is returned as it is, anything else yields undefined.
getMiddlewareInstance(m) ==
    CASE m.ref = "class" -> IF m.ctorThrows THEN "ctorThrew" ELSE "instance"
      [] m.ref = "function" -> "function"
      [] OTHER -> Undefined

\* Earlier variant, lines 189-212.  invokeMiddleware has no await, so the
\* whole body runs inside the handler call.  use.apply(args) calls use with
\* this = args and no arguments: a use that touches req, res or next throws a
\* TypeError; its result is discarded.
earlierMiddlewareHandler ==
    /\ mw.variant = "earlier"
    /\ mwCall.pc = "idle"
    /\ mwCall' =
         CASE mw.ref = Undefined ->
                [byAdapter(mwCall, Undefined) EXCEPT !.pc = "done"]
           [] mw.ref # Undefined /\ mw.behaviour \in {"next", "respond"} ->
                [byAdapter(mwCall, "TypeError") EXCEPT
                    !.pc = "done", !.failure = "TypeError"]
           [] mw.ref # Undefined /\ mw.behaviour = "throw" ->
                [byAdapter(mwCall, mw.err) EXCEPT
                    !.pc = "done", !.failure = mw.err]
           [] mw.ref # Undefined /\ mw.behaviour = "promise" ->
                [mwCall EXCEPT !.pc = "pendingResult"]
    /\ UNCHANGED <<mw, reqNo, notMw>>

\* Earlier variant: the promise use returned settles.  Nothing was attached
\* to it, so a rejection stays unhandled.
earlierResultSettles ==
    /\ mw.variant = "earlier"
    /\ mwCall.pc = "pendingResult"
    /\ \/ mwCall' = [mwCall EXCEPT !.pc = "done"]
       \/ mwCall' = [mwCall EXCEPT !.pc = "done", !.failure = mw.err,
                                   !.unhandled = @ \cup {mw.err}]
    /\ UNCHANGED <<mw, reqNo, notMw>>

\* Later variant, lines 234-236 and 246-249: the handler starts
\* invokeMiddleware, which runs up to its await, and attaches .catch(next).
laterMiddlewareHandler ==
    /\ mw.variant = "later"
    /\ mwCall.pc = "idle"
    /\ mwCall' = [mwCall EXCEPT !.pc = "awaitInstance",
                                !.instance = getMiddlewareInstance(mw)]
    /\ UNCHANGED <<mw, reqNo, notMw>>

\* Later variant, lines 249-264: invokeMiddleware resumes after the await.
laterInvokeResumes ==
    /\ mw.variant = "later"
    /\ mwCall.pc = "awaitInstance"
    /\ mwCall' =
         CASE mwCall.instance = "ctorThrew" ->
                [byAdapter(mwCall, mw.err) EXCEPT
                    !.pc = "done", !.failure = mw.err]
           [] mwCall.instance = Undefined ->
                [byAdapter(mwCall, Undefined) EXCEPT !.pc = "done"]
           [] mwCall.instance \in {"instance", "function"}
                /\ mw.behaviour = "next" ->
                [byMiddleware(mwCall, Undefined) EXCEPT !.pc = "done"]
           [] mwCall.instance \in {"instance", "function"}
                /\ mw.behaviour = "respond" ->
                [mwCall EXCEPT !.pc = "done"]
           [] mwCall.instance \in {"instance", "function"}
                /\ mw.behaviour = "throw" ->
                [byAdapter(mwCall, mw.err) EXCEPT
                    !.pc = "done", !.failure = mw.err]
           [] mwCall.instance \in {"instance", "function"}
                /\ mw.behaviour = "promise" ->
                [mwCall EXCEPT !.pc = "pendingResult"]
    /\ UNCHANGED <<mw, reqNo, notMw>>

\* Later variant, lines 259-261: result.catch(next) forwards a rejection; a
\* middleware that resolves has called next() itself or has responded.
laterResultSettles ==
    /\ mw.variant = "later"
    /\ mwCall.pc = "pendingResult"
    /\ \/ mwCall' = [byMiddleware(mwCall, Undefined) EXCEPT !.pc = "done"]
       \/ mwCall' = [mwCall EXCEPT !.pc = "done"]
       \/ mwCall' = [byAdapter(mwCall, mw.err) EXCEPT
                        !.pc = "done", !.failure = mw.err]
    /\ UNCHANGED <<mw, reqNo, notMw>>

\* The same handler serves the next request.
mwNewRequest ==
    /\ mwCall.pc = "done"
    /\ reqNo < MaxRequests
    /\ reqNo' = reqNo + 1
    /\ mwCall' = IdleMwCall
    /\ UNCHANGED <<mw, notMw>>

(***************************************************************************)
(* attachMiddleware (express.ts 165-173).  The metadata record holds what  *)
(* the function reads and writes: url, the controller-level middleware     *)
(* list, and per declared route group the middleware list of each of its   *)
(* route declarations.                                                     *)
(***************************************************************************)
MaxAttach == 2
MaxRoutes == 2

MwNames == {"A", "B"}
MethodNames == {"list", "create"}
Urls == {"", "/users"}

\* arr.unshift(x)
unshift(arr, x) == <<x>> \o arr

\* mutant: the middleware is appended instead of prepended
attachMiddleware_push(m, property, middleware) ==
    IF m.url # ""
    THEN [m EXCEPT !.middleware = Append(@, middleware)]
    ELSE IF property # Undefined /\ property \in DOMAIN m.routes
         THEN [m EXCEPT !.routes[property][1] = Append(@, middleware)]
         ELSE m

\* mutant: an unknown method falls back to the controller-level list
attachMiddleware_fallback(m, property, middleware) ==
    IF m.url # ""
    THEN [m EXCEPT !.middleware = unshift(@, middleware)]
    ELSE IF property # Undefined /\ property \in DOMAIN m.routes
         THEN [m EXCEPT !.routes[property][1] = unshift(@, middleware)]
         ELSE [m EXCEPT !.middleware = unshift(@, middleware)]

\* lines 168-172; routes[property].routes[0] is the first element, index 1
attachMiddleware(m, property, middleware) ==
    IF m.url # ""
    THEN [m EXCEPT !.middleware = unshift(@, middleware)]
    ELSE IF property # Undefined /\ property \in DOMAIN m.routes
         THEN [m EXCEPT !.routes[property][1] = unshift(@, middleware)]
         ELSE m

\* metadata as the decorators leave it: every declared route group has at
\* least one route declaration
InitialMetas ==
    { [url |-> u, middleware |-> l, routes |-> r] :
        u \in Urls,
        l \in {<<>>, <<"A">>},
        r \in UNION { [d -> { [i \in 1..n |-> <<>>] : n \in 1..MaxRoutes }] :
                        d \in SUBSET MethodNames } }

AttachInit ==
    /\ meta \in InitialMetas
    /\ lastAttach = [count |-> 0, property |-> Undefined, middleware |-> "A",
                     before |-> meta]

\* one call of attachMiddleware(target, property, middleware)
attachMiddlewareCall ==
    /\ lastAttach.count < MaxAttach
    /\ \E property \in MethodNames \cup {Undefined}, middleware \in MwNames :
         /\ meta' = attachMiddleware(meta, property, middleware)
         /\ lastAttach' = [count |-> lastAttach.count + 1, property |-> property,
                           middleware |-> middleware, before |-> meta]
    /\ UNCHANGED notAttach

(***************************************************************************)
(* extractParameters and getParam (express.ts 110-157).  A JavaScript      *)
(* value is a tuple of strings: <<"req">> the request, <<"res">> the       *)
(* response, <<"next">> the callback, <<k>> the sub-object req[k],         *)
(* <<o, n>> the field n of object o, <<"undefined">> undefined.            *)
(***************************************************************************)
MaxParams == 2
MaxIndex == 2

ReqObj == <<"req">>
ResObj == <<"res">>
NextFn == <<"next">>
UndefinedVal == <<Undefined>>

ParameterTypes == {"RESPONSE", "REQUEST", "NEXT", "PARAMS", "QUERY", "BODY",
                   "HEADERS", "COOKIES"}
SubObjectTypes == {"PARAMS", "QUERY", "BODY", "HEADERS", "COOKIES"}
ParamNames == {"id"}

\* the property of the request each type reads (lines 130-142)
subObject(type) ==
    CASE type = "PARAMS" -> "params"
      [] type = "QUERY" -> "query"
      [] type = "BODY" -> "body"
      [] type = "HEADERS" -> "headers"
      [] type = "COOKIES" -> "cookies"

\* Express always sets params, query and headers; body and cookies exist
\* only when a parser middleware has run.
Requests == { [present |-> {"params", "query", "headers"} \cup s] :
                s \in SUBSET {"body", "cookies"} }

\* source[key] for a property that holds an object
property(r, key) == IF key \in r.present THEN <<key>> ELSE UndefinedVal

\* obj[name]: every object of the model has the fields of ParamNames
field(obj, name) == <<obj[1], name>>

\* mutant: the binding name is ignored
getParam_ignoresName(r, paramType, name) ==
    IF paramType # Undefined
    THEN (IF property(r, paramType) # UndefinedVal
          THEN property(r, paramType) ELSE ReqObj)
    ELSE ReqObj

\* getParam, lines 153-157, with source = req
getParam(r, paramType, name) ==
    LET param == IF paramType # Undefined
                 THEN (IF property(r, paramType) # UndefinedVal
                       THEN property(r, paramType) ELSE ReqObj)
                 ELSE ReqObj
    IN  IF name # Undefined THEN field(param, name) ELSE param

\* args[index] = v on a JavaScript array: indices between the old length and
\* index become holes, which read as undefined
RECURSIVE holes(_)
holes(n) == IF n <= 0 THEN <<>> ELSE <<UndefinedVal>> \o holes(n - 1)

setIndex(arr, index, v) ==
    IF index + 1 <= Len(arr)
    THEN [arr EXCEPT ![index + 1] = v]
    ELSE arr \o holes(index - Len(arr)) \o <<v>>

\* the switch of lines 119-144
parameterValue(r, p) ==
    CASE p.type = "RESPONSE" -> ResObj
      [] p.type = "REQUEST" -> getParam(r, Undefined, p.name)
      [] p.type = "NEXT" -> NextFn
      [] p.type \in SubObjectTypes -> getParam(r, subObject(p.type), p.name)

\* the loop of lines 116-147 over the first n declarations
RECURSIVE extractFrom(_, _, _)
extractFrom(r, ps, n) ==
    IF n = 0 THEN <<>>
    ELSE setIndex(extractFrom(r, ps, n - 1), ps[n].index, parameterValue(r, ps[n]))

extractParameters(r, ps) == extractFrom(r, ps, Len(ps))

Declarations == [name : ParamNames \cup {Undefined}, index : 0..MaxIndex,
                 type : ParameterTypes]

ParamsInit ==
    /\ params = <<>>
    /\ req \in Requests
    /\ args = [done |-> FALSE, value |-> <<>>]

\* a parameter decorator declares one more parameter, at an index of its own
declareParameter ==
    /\ ~args.done
    /\ Len(params) < MaxParams
    /\ \E d \in Declarations :
         /\ \A i \in 1..Len(params) : params[i].index # d.index
         /\ params' = Append(params, d)
    /\ UNCHANGED <<req, args, notParams>>

\* the route handler extracts the arguments of a request (line 79)
extractParametersCall ==
    /\ ~args.done
    /\ args' = [done |-> TRUE, value |-> extractParameters(req, params)]
    /\ UNCHANGED <<params, req, notParams>>

(***************************************************************************)
(* attachControllersInstances and registerController (express.ts 10-72),   *)
(* and the dispatch of a request through a mounted sub-router.             *)
(***************************************************************************)
MaxControllers == 2

SupportedMethods == {"get", "post"}

Route(method, url, middleware) ==
    [method |-> method, url |-> url, middleware |-> middleware]
Group(methodName, st, routes) ==
    [methodName |-> methodName, status |-> st, routes |-> routes]

\* meta.routes as its entries in insertion order
ListOnly == <<Group("list", Undefined, <<Route("get", "/", <<>>)>>)>>
ListAndCreate ==
    <<Group("list", "201", <<Route("get", "/", <<"B">>),
                             Route("post", "/all", <<>>)>>),
      Group("create", Undefined, <<Route("post", "/", <<"A", "B">>)>>)>>
\* a route whose method the router does not have
UnknownMethod ==
    <<Group("list", Undefined, <<Route("get", "/", <<>>),
                                 Route("fly", "/x", <<"A">>)>>)>>

ControllerMeta(url, middleware, groups) ==
    [url |-> url, middleware |-> middleware, groups |-> groups]

ControllerMetas ==
    { ControllerMeta("/users", <<"A", "B">>, ListAndCreate),
      ControllerMeta("/users", <<>>, ListAndCreate),
      ControllerMeta("/items", <<>>, ListOnly),
      ControllerMeta("/items", <<"A", "B">>, UnknownMethod) }

\* middlewareHandler(middleware) as registered on a router
middlewareLayer(level, ref) == [kind |-> "middleware", level |-> level, ref |-> ref]
\* routeHandler(controller, methodName, params, status) as registered
handlerLayer(methodName, st) ==
    [kind |-> "handler", level |-> methodName, ref |-> st]

\* (list || []).map(middlewareHandler), lines 46 and 60-62
mapMiddleware(level, list) ==
    [j \in 1..Len(list) |-> middlewareLayer(level, list[j])]

\* mutant: the generated handler is registered before the route middleware
routeHandlers_handlerFirst(g, route) ==
    <<handlerLayer(g.methodName, g.status)>> \o mapMiddleware("route", route.middleware)

\* [route.url, ...routeMiddleware, handler], lines 60-65
routeHandlers(g, route) ==
    mapMiddleware("route", route.middleware) \o <<handlerLayer(g.methodName, g.status)>>

RECURSIVE flatten(_)
flatten(ss) == IF ss = <<>> THEN <<>> ELSE Head(ss) \o flatten(Tail(ss))

\* mutant: only the first route declaration of a group is bound
routeBindings_firstOnly(m) ==
    flatten([g \in 1..Len(m.groups) |->
               <<[group |-> m.groups[g], route |-> m.groups[g].routes[1]]>>])

\* the order in which lines 58-67 visit the route declarations
routeBindings(m) ==
    flatten([g \in 1..Len(m.groups) |->
               [r \in 1..Len(m.groups[g].routes) |->
                  [group |-> m.groups[g], route |-> m.groups[g].routes[r]]]])

Controllers == 1..MaxControllers

RegisterInit ==
    /\ ctrl \in [Controllers ->
                   { [pc |-> "new", meta |-> m, router |-> <<>>, bound |-> 0] :
                       m \in ControllerMetas }]
    /\ app = <<>>
    /\ allPromise = [state |-> "pending", started |-> 0, running |-> 0]
    /\ regLog = <<>>
    /\ dispatch = [active |-> FALSE, c |-> 0, chain |-> <<>>, route |-> 0,
                   pos |-> 0, log |-> <<>>, outcomes |-> <<>>]
    /\ reqNo = 0

\* controllers.map(...), line 11: registerController is called for the next
\* controller of the list and runs up to its await, line 37.
registerControllerCall ==
    /\ allPromise.started < MaxControllers
    /\ LET i == allPromise.started + 1 IN
         /\ ctrl' = [ctrl EXCEPT ![i].pc = "awaiting"]
         /\ allPromise' = [allPromise EXCEPT !.started = i]
    /\ UNCHANGED <<app, regLog, dispatch, reqNo, notReg>>

\* A suspended registerController resumes once the map has returned and no
\* other continuation is running; the continuations run in the order in
\* which they were suspended.
\* Lines 38-53: the sub-router is created and the router-level middleware
\* applied.
applyRouterMiddleware ==
    /\ allPromise.started = MaxControllers
    /\ allPromise.running = 0
    /\ \E i \in Controllers :
         /\ ctrl[i].pc = "awaiting"
         /\ \A j \in 1..(i - 1) : ctrl[j].pc # "awaiting"
         /\ LET routerMiddleware == mapMiddleware("router", ctrl[i].meta.middleware) IN
              /\ ctrl' = [ctrl EXCEPT ![i].pc = "routes",
                                      ![i].router = routerMiddleware]
              /\ regLog' = IF Len(routerMiddleware) > 0
                           THEN Append(regLog, [c |-> i, op |-> "use", n |-> 0])
                           ELSE regLog
         /\ allPromise' = [allPromise EXCEPT !.running = i]
    /\ UNCHANGED <<app, dispatch, reqNo, notReg>>

\* One iteration of lines 59-66 with a method the router has.
bindRoute ==
    /\ allPromise.running # 0
    /\ LET i == allPromise.running
           todo == routeBindings(ctrl[i].meta)
           k == ctrl[i].bound + 1
       IN  /\ ctrl[i].pc = "routes"
           /\ k <= Len(todo)
           /\ todo[k].route.method \in SupportedMethods
           /\ ctrl' = [ctrl EXCEPT
                 ![i].bound = k,
                 ![i].router = Append(@,
                     [kind |-> "route", method |-> todo[k].route.method,
                      url |-> todo[k].route.url,
                      handlers |-> routeHandlers(todo[k].group, todo[k].route)])]
           /\ regLog' = Append(regLog, [c |-> i, op |-> "bind", n |-> k])
    /\ UNCHANGED <<app, allPromise, dispatch, reqNo, notReg>>

\* Line 65 with a method the router does not have: router[route.method] is
\* undefined, the call throws, and the promise of registerController rejects.
bindRouteThrows ==
    /\ allPromise.running # 0
    /\ LET i == allPromise.running
           todo == routeBindings(ctrl[i].meta)
           k == ctrl[i].bound + 1
       IN  /\ ctrl[i].pc = "routes"
           /\ k <= Len(todo)
           /\ todo[k].route.method \notin SupportedMethods
           /\ ctrl' = [ctrl EXCEPT ![i].pc = "rejected"]
    /\ allPromise' = [allPromise EXCEPT !.running = 0]
    /\ UNCHANGED <<app, regLog, dispatch, reqNo, notReg>>

\* Lines 69-71: every route is bound; the sub-router is mounted on the app.
mountRouter ==
    /\ allPromise.running # 0
    /\ LET i == allPromise.running IN
         /\ ctrl[i].pc = "routes"
         /\ ctrl[i].bound = Len(routeBindings(ctrl[i].meta))
         /\ app' = Append(app, [url |-> ctrl[i].meta.url, router |-> i])
         /\ ctrl' = [ctrl EXCEPT ![i].pc = "done"]
         /\ regLog' = Append(regLog, [c |-> i, op |-> "mount", n |-> 0])
    /\ allPromise' = [allPromise EXCEPT !.running = 0]
    /\ UNCHANGED <<dispatch, reqNo, notReg>>

\* await Promise.all(promises), line 13: resolves when every registration
\* has returned, rejects as soon as one has thrown.
promiseAllSettles ==
    /\ allPromise.state = "pending"
    /\ allPromise.running = 0
    /\ \/ /\ \A i \in Controllers : ctrl[i].pc = "done"
          /\ allPromise' = [allPromise EXCEPT !.state = "resolved"]
       \/ /\ \E i \in Controllers : ctrl[i].pc = "rejected"
          /\ allPromise' = [allPromise EXCEPT !.state = "rejected"]
    /\ UNCHANGED <<ctrl, app, regLog, dispatch, reqNo, notReg>>

\* The handlers Express runs for a request that matches the route layer at
\* index l of a router: the stack is walked in order, router.use layers match
\* every request, and of the route layers only the one at l matches.
RECURSIVE chainUpTo(_, _, _)
chainUpTo(router, l, j) ==
    IF j = 0 THEN <<>>
    ELSE chainUpTo(router, l, j - 1) \o
         (IF router[j].kind = "middleware" THEN <<router[j]>>
          ELSE IF j = l THEN router[j].handlers ELSE <<>>)

requestChain(router, l) == chainUpTo(router, l, l)

\* what a stage did with the continuation: a middleware handler passes
\* control with next(), forwards an error with next(error), or the
\* middleware ends the response itself
StageOutcomes == {"next", "error", "respond"}

\* A request arrives for a route of a mounted controller.
requestArrives ==
    /\ ~dispatch.active
    /\ allPromise.running = 0
    /\ reqNo < MaxRequests
    /\ \E c \in Controllers :
         /\ ctrl[c].pc = "done"
         /\ \E l \in 1..Len(ctrl[c].router) :
              /\ ctrl[c].router[l].kind = "route"
              /\ dispatch' = [active |-> TRUE, c |-> c, route |-> l,
                              chain |-> requestChain(ctrl[c].router, l),
                              pos |-> 1, log |-> <<>>, outcomes |-> <<>>]
    /\ reqNo' = reqNo + 1
    /\ UNCHANGED <<ctrl, app, allPromise, regLog, notReg>>

\* The middleware handler at the current position runs.
runMiddleware ==
    /\ dispatch.active
    /\ dispatch.chain[dispatch.pos].kind = "middleware"
    /\ \E o \in StageOutcomes :
         dispatch' = [dispatch EXCEPT
             !.log = Append(@, dispatch.chain[dispatch.pos]),
             !.outcomes = Append(@, o),
             !.pos = IF o = "next" THEN @ + 1 ELSE @,
             !.active = (o = "next" /\ dispatch.pos < Len(dispatch.chain))]
    /\ UNCHANGED <<ctrl, app, allPromise, regLog, reqNo, notReg>>

\* The generated route handler at the current position runs; it is the last
\* handler of its route.
runHandler ==
    /\ dispatch.active
    /\ dispatch.chain[dispatch.pos].kind = "handler"
    /\ dispatch' = [dispatch EXCEPT
           !.log = Append(@, dispatch.chain[dispatch.pos]),
           !.outcomes = Append(@, "respond"),
           !.active = FALSE]
    /\ UNCHANGED <<ctrl, app, allPromise, regLog, reqNo, notReg>>

(***************************************************************************)
(* Specifications: one per part; the variables of the other parts stay at  *)
(* the values given here.                                                  *)
(***************************************************************************)
IdleRoute ==
    /\ status = Undefined /\ res = FreshRes /\ call = IdleCall /\ nextCalls = <<>>
IdleMw ==
    /\ mw = [variant |-> "later", ref |-> Undefined, behaviour |-> "next",
             err |-> "E1", ctorThrows |-> FALSE]
    /\ mwCall = IdleMwCall
IdleAttach ==
    /\ meta = [url |-> "", middleware |-> <<>>, routes |-> <<>>]
    /\ lastAttach = [count |-> 0, property |-> Undefined, middleware |-> "A",
                     before |-> meta]
IdleParams ==
    /\ params = <<>>
    /\ req = [present |-> {}]
    /\ args = [done |-> FALSE, value |-> <<>>]
IdleReg ==
    /\ ctrl = <<>> /\ app = <<>> /\ regLog = <<>>
    /\ allPromise = [state |-> "pending", started |-> 0, running |-> 0]
    /\ dispatch = [active |-> FALSE, c |-> 0, chain |-> <<>>, route |-> 0,
                   pos |-> 0, log |-> <<>>, outcomes |-> <<>>]

RouteSpecInit == RouteInit /\ IdleMw /\ IdleAttach /\ IdleParams /\ IdleReg
RouteNext ==
    \/ routeHandlerThrows
    \/ routeHandlerValue
    \/ routeHandlerPromise
    \/ methodSendsWhilePending
    \/ promiseResolves
    \/ promiseRejects
    \/ newRequest
SpecRoute == RouteSpecInit /\ [][RouteNext]_vars

MwSpecInit == MiddlewareInit /\ IdleRoute /\ IdleAttach /\ IdleParams /\ IdleReg
MwNext ==
    \/ earlierMiddlewareHandler
    \/ earlierResultSettles
    \/ laterMiddlewareHandler
    \/ laterInvokeResumes
    \/ laterResultSettles
    \/ mwNewRequest
SpecMiddleware == MwSpecInit /\ [][MwNext]_vars

AttachSpecInit ==
    AttachInit /\ IdleRoute /\ IdleMw /\ IdleParams /\ IdleReg /\ reqNo = 0
AttachNext == attachMiddlewareCall
SpecAttach == AttachSpecInit /\ [][AttachNext]_vars

ParamsSpecInit ==
    ParamsInit /\ IdleRoute /\ IdleMw /\ IdleAttach /\ IdleReg /\ reqNo = 0
ParamsNext ==
    \/ declareParameter
    \/ extractParametersCall
SpecParams == ParamsSpecInit /\ [][ParamsNext]_vars

RegSpecInit == RegisterInit /\ IdleRoute /\ IdleMw /\ IdleAttach /\ IdleParams
RegNext ==
    \/ registerControllerCall
    \/ applyRouterMiddleware
    \/ bindRoute
    \/ bindRouteThrows
    \/ mountRouter
    \/ promiseAllSettles
    \/ requestArrives
    \/ runMiddleware
    \/ runHandler
SpecRegister == RegSpecInit /\ [][RegNext]_vars

(***************************************************************************)
(* Properties of the generated route handler, under SpecRoute.             *)
(***************************************************************************)

\* C1: when the promise returned by the controller method rejects with E,
\* the handler has called next exactly once, with E, and has sent nothing.
C1_RejectionForwarded ==
    (call.pc = "done" /\ call.kind = "rejected") =>
        (nextCalls = <<call.value>> /\ res.sent = <<>> /\ res.statuses = <<>>)

C1_Witness ==
    call.pc = "done" /\ call.kind = "rejected" /\ nextCalls = <<"E2">>

\* C2 as stated: when the promise resolves to V and the headers were not
\* sent, res.send has been called exactly once with V, for every V, the
\* undefined one included.
C2_SendsEveryValue ==
    (call.pc = "done" /\ call.kind = "resolved" /\ ~call.ctrlSent) =>
        res.sent = <<call.value>>

\* C2 as amended: when the promise resolves to V and the headers were not
\* sent, res.send has been called exactly once with V if V is not undefined
\* (after res.status(status) when a status is declared), and not at all if V
\* is undefined.
C2_SendsDefinedValue ==
    (call.pc = "done" /\ call.kind = "resolved" /\ ~call.ctrlSent) =>
        IF call.value # Undefined
        THEN /\ res.sent = <<call.value>>
             /\ res.statuses = (IF status # Undefined THEN <<status>> ELSE <<>>)
        ELSE res.sent = <<>> /\ res.statuses = <<>>

C2_Witness ==
    /\ call.pc = "done" /\ call.kind = "resolved" /\ ~call.ctrlSent
    /\ call.value = "V1" /\ res.sent = <<"V1">> /\ status = Undefined

\* C3: when the controller method throws synchronously, the handler does not
\* throw to its caller and has called next with the thrown error.
C3_ThrowForwarded ==
    call.kind = "throw" => (call.thrown = None /\ nextCalls = <<call.value>>)

\* C4: the handler calls neither res.send nor res.status when the headers
\* were already sent at the moment the result became available, on the
\* immediate-value path and on the resolved-promise path alike; the handler
\* never sends twice.
C4_NoSendAfterHeadersSent ==
    /\ call.ctrlSent => (res.sent = <<>> /\ res.statuses = <<>>)
    /\ Len(res.sent) <= 1

C4_Witness ==
    /\ call.pc = "done" /\ call.kind = "resolved" /\ call.ctrlSent
    /\ call.value = "V1" /\ status = "201" /\ res.headersSent

(***************************************************************************)
(* Properties of the middleware handler, under SpecMiddleware.             *)
(***************************************************************************)
forwarded(c) ==
    \E k \in 1..Len(c.next) : c.next[k] = [by |-> "adapter", arg |-> c.failure]

\* C5: for every handler made by middlewareHandler, a synchronous throw of
\* the middleware or of its constructor and a rejection of the promise it
\* returns have been passed to next(error); the handler has not thrown and
\* no rejection is left unhandled.
C5_FailureForwarded ==
    /\ mwCall.thrown = None
    /\ mwCall.unhandled = {}
    /\ (mwCall.pc = "done" /\ mwCall.failure # None) => forwarded(mwCall)

\* The same statement for the later variant alone (lines 233-271).
LaterVariantForwardsFailure ==
    mw.variant = "later" =>
        /\ mwCall.thrown = None
        /\ mwCall.unhandled = {}
        /\ (mwCall.pc = "done" /\ mwCall.failure # None) => forwarded(mwCall)

(***************************************************************************)
(* Properties of attachMiddleware, under SpecAttach.                       *)
(***************************************************************************)
prepended == <<lastAttach.middleware>> \o lastAttach.before.middleware

unknownMethod ==
    /\ lastAttach.count > 0
    /\ lastAttach.property # Undefined
    /\ lastAttach.property \notin DOMAIN lastAttach.before.routes

maxIndex == IF params = <<>> THEN 0 - 1
            ELSE CHOOSE m \in 0..MaxIndex :
                   /\ \E i \in 1..Len(params) : params[i].index = m
                   /\ \A i \in 1..Len(params) : params[i].index <= m

declared(index) == \E i \in 1..Len(params) : params[i].index = index

\* the value at a declared index when every sub-object is read as it is
valueAsStated(p) ==
    CASE p.type = "RESPONSE" -> ResObj
      [] p.type = "NEXT" -> NextFn
      [] p.type = "REQUEST" ->
           IF p.name = Undefined THEN ReqObj ELSE <<"req", p.name>>
      [] p.type \in SubObjectTypes ->
           IF subObject(p.type) \in req.present
           THEN (IF p.name = Undefined THEN <<subObject(p.type)>>
                 ELSE <<subObject(p.type), p.name>>)
           ELSE UndefinedVal

\* the value at a declared index when a missing sub-object falls back to the
\* request object
valueWithFallback(p) ==
    CASE p.type = "RESPONSE" -> ResObj
      [] p.type = "NEXT" -> NextFn
      [] p.type = "REQUEST" ->
           IF p.name = Undefined THEN ReqObj ELSE <<"req", p.name>>
      [] p.type \in SubObjectTypes ->
           LET from == IF subObject(p.type) \in req.present
                       THEN subObject(p.type) ELSE "req"
           IN  IF p.name = Undefined THEN <<from>> ELSE <<from, p.name>>

\* C9 as stated: the array has at least max(index)+1 elements, each declared
\* index holds the value of its kind, for PARAMS, QUERY, BODY, HEADERS and
\* COOKIES the named field of the sub-object or the whole sub-object, and
\* undeclared indices are undefined.
C9_ValuesPerKind ==
    args.done =>
        /\ Len(args.value) >= maxIndex + 1
        /\ \A i \in 1..Len(params) :
             args.value[params[i].index + 1] = valueAsStated(params[i])
        /\ \A k \in 1..Len(args.value) :
             ~declared(k - 1) => args.value[k] = UndefinedVal

\* C9 as amended: the same, except that when the sub-object of a PARAMS,
\* QUERY, BODY, HEADERS or COOKIES parameter is missing from the request the
\* index holds the named field of the request object itself, or the request
\* object when no name is given.
C9_ValuesPerKindWithFallback ==
    args.done =>
        /\ Len(args.value) >= maxIndex + 1
        /\ \A i \in 1..Len(params) :
             args.value[params[i].index + 1] = valueWithFallback(params[i])
        /\ \A k \in 1..Len(args.value) :
             ~declared(k - 1) => args.value[k] = UndefinedVal

C9_Witness ==
    /\ args.done
    /\ Len(params) = MaxParams
    /\ "cookies" \notin req.present
    /\ \E i \in 1..Len(params) :
         /\ params[i].type = "COOKIES" /\ params[i].name = "id"
         /\ params[i].index = MaxIndex
         /\ args.value[MaxIndex + 1] = <<"req", "id">>
    /\ \E k \in 1..Len(args.value) : ~declared(k - 1)

(***************************************************************************)
(* Properties of the registration and of the dispatch, under SpecRegister. *)
(***************************************************************************)
declarations(m) ==
    UNION { { [group |-> m.groups[g], route |-> m.groups[g].routes[r]] :
                r \in 1..Len(m.groups[g].routes) } : g \in 1..Len(m.groups) }

\* the handlers of a request in declaration order: router-level middleware,
\* the middleware of the matched route declaration, the generated handler
expectedChain(m, method, url) ==
    LET d == CHOOSE x \in declarations(m) :
                 x.route.method = method /\ x.route.url = url
    IN  [j \in 1..Len(m.middleware) |->
           [kind |-> "middleware", level |-> "router", ref |-> m.middleware[j]]]
        \o [j \in 1..Len(d.route.middleware) |->
           [kind |-> "middleware", level |-> "route", ref |-> d.route.middleware[j]]]
        \o <<[kind |-> "handler", level |-> d.group.methodName,
              ref |-> d.group.status]>>

isPrefix(a, b) == Len(a) <= Len(b) /\ \A k \in 1..Len(a) : a[k] = b[k]

matchedLayer == ctrl[dispatch.c].router[dispatch.route]

\* C8: the stages of a request run in declaration order, the router-level
\* middleware of the controller in list order, then the middleware of the
\* route in list order, then the generated handler, and a stage has run only
\* if every stage before it has called next() without an error.
C8_DeclarationOrder ==
    dispatch.c # 0 =>
        /\ isPrefix(dispatch.log,
                    expectedChain(ctrl[dispatch.c].meta, matchedLayer.method,
                                  matchedLayer.url))
        /\ Len(dispatch.outcomes) = Len(dispatch.log)
        /\ \A k \in 1..(Len(dispatch.log) - 1) : dispatch.outcomes[k] = "next"

C8_Witness ==
    /\ dispatch.c # 0 /\ ~dispatch.active
    /\ Len(dispatch.log) = 5
    /\ dispatch.log[1].level = "router" /\ dispatch.log[2].level = "router"
    /\ dispatch.log[3].level = "route" /\ dispatch.log[4].level = "route"
    /\ dispatch.log[5].kind = "handler"

RECURSIVE declaredRoutes(_, _)
declaredRoutes(groups, n) ==
    IF n = 0 THEN 0 ELSE declaredRoutes(groups, n - 1) + Len(groups[n].routes)

before(c, q, op) == { p \in 1..(q - 1) : regLog[p].c = c /\ regLog[p].op = op }
mounts(i) == { p \in 1..Len(app) : app[p].router = i }

\* the calls registerController has made for one controller are in order
registrationInOrder ==
    \A q \in 1..Len(regLog) :
        LET e == regLog[q]
            m == ctrl[e.c].meta
        IN  /\ before(e.c, q, "mount") = {}
            /\ e.op = "use" => before(e.c, q, "bind") = {} /\ before(e.c, q, "use") = {}
            /\ e.op # "use" =>
                 (Len(m.middleware) > 0 => before(e.c, q, "use") # {})
            /\ e.op = "bind" => e.n = Cardinality(before(e.c, q, "bind")) + 1
            /\ e.op = "mount" =>
                 Cardinality(before(e.c, q, "bind")) =
                     declaredRoutes(m.groups, Len(m.groups))

\* a mounted sub-router holds the router-level middleware and a route layer,
\* ending in the generated handler, for every route declaration
routerComplete(i) ==
    LET m == ctrl[i].meta
        router == ctrl[i].router
    IN  /\ Len(router) >= Len(m.middleware)
        /\ \A j \in 1..Len(m.middleware) :
             router[j] = [kind |-> "middleware", level |-> "router",
                          ref |-> m.middleware[j]]
        /\ \A d \in declarations(m) :
             \E l \in 1..Len(router) :
                /\ router[l].kind = "route"
                /\ router[l].method = d.route.method
                /\ router[l].url = d.route.url
                /\ router[l].handlers[Len(router[l].handlers)] =
                     [kind |-> "handler", level |-> d.group.methodName,
                      ref |-> d.group.status]

\* C10: for each controller the router-level middleware is applied first,
\* then every declared route is bound, and only then is the sub-router
\* mounted, at the controller's base path and at most once; when the promise
\* of attachControllersInstances has resolved every controller is mounted
\* exactly once with every declared route in its sub-router.
C10_SequentialRegistration ==
    /\ registrationInOrder
    /\ \A i \in Controllers :
         /\ Cardinality(mounts(i)) <= 1
         /\ \A p \in mounts(i) :
              app[p].url = ctrl[i].meta.url /\ routerComplete(i)
         /\ allPromise.state = "resolved" => Cardinality(mounts(i)) = 1

C10_Witness ==
    /\ allPromise.state = "resolved"
    /\ Len(app) = MaxControllers
    /\ app[MaxControllers].router = MaxControllers
    /\ Len(ctrl[1].meta.groups) = 2
    /\ ctrl[1].meta.middleware # <<>>
    /\ ctrl[1].meta.url # ctrl[2].meta.url

====
